---- MODULE Spec2Model ----
(***************************************************************************)
(* State-machine model of the chatyy content script: the persistent        *)
(* logger (src/utils/logger.ts), the YouTube handler                       *)
(* (src/services/youtubeHandler.ts), the page extractor                    *)
(* (src/services/pageExtractor.ts) and the Gemini model adapter.           *)
(*                                                                         *)
(* JavaScript runs to completion between suspension points, so one action  *)
(* is one synchronous stretch of code: from a call or a callback up to the *)
(* next await on a browser promise (storage, fetch) or to the return.      *)
(* Strings whose characters matter are sequences of one-character strings. *)
(***************************************************************************)
EXTENDS Integers, Sequences, FiniteSets, TLC

VARIABLES
  logs,            \* persistentLogger.logs, the in-memory buffer
  calls,           \* number of addLog calls so far: the clock of the timestamps
  chromeAvailable, \* typeof chrome !== 'undefined' && chrome?.storage?.local
  store,           \* value under 'youtube-handler-logs' in chrome.storage.local
  pending,         \* storage requests issued and not yet served, oldest first
  got,             \* value the last getLogs() promise resolved with
  clearSt,         \* position of clearLogs(): idle, awaiting, done, failed
  lastDone,        \* outcome of the storage write served last
  logSinceClear,   \* a log call was made after the last clearLogs() call
  clearRaced,      \* the last clearLogs() was called with writes in flight
  lastVideoId,     \* youtubeHandler's module variable
  location,        \* the video id in window.location (query parameter v)
  lastUrl,         \* the href the URL-change observer saw last
  inited,          \* initializeYouTubeHandling() has run
  timers,          \* pending setTimeout callbacks, in the order they were set
  invs,            \* the processVideo invocations so far, in call order
  fetches,         \* number of fetch() calls issued
  navs,            \* number of navigations of the page so far
  apiKey,          \* GeminiAI_2_0_flash.apiKey
  genPc,           \* position of generateResponse: idle, awaiting, done
  genRequest,      \* the arguments of the helper call in flight
  genOutcome,      \* how the last helper call settled
  genResult,       \* what the last generateResponse call returned
  genCalls,        \* helper calls made by the current generateResponse call
  providerCalls,   \* helper calls made in all
  generations,     \* generateResponse calls made in all
  doc,             \* the document the page extractor reads
  content,         \* the PageContent the last getAllPageContent() returned
  extractions,     \* number of getAllPageContent() calls so far
  input,           \* a body text given to the de-duplication
  pass1,           \* the de-duplication of input
  pass2,           \* the de-duplication of pass1
  observer,        \* contentObserver: none, connected, disconnected
  records,         \* mutation records queued for contentObserver, not yet delivered
  initPc,          \* initializePageExtraction(): idle, returned, threw
  mutations,       \* mutations of the document so far
  detected,        \* mutation records queued for contentObserver in all
  afterStop,       \* mutations under the body since stop() was first called
  stops            \* number of stop() calls on the returned handle

loggerVars == <<logs, calls, chromeAvailable, store, pending, got, clearSt,
                lastDone, logSinceClear, clearRaced>>

ytVars == <<lastVideoId, location, lastUrl, inited, timers, invs, fetches, navs>>

adapterVars == <<apiKey, genPc, genRequest, genOutcome, genResult, genCalls,
                 providerCalls, generations>>

observerVars == <<observer, records, initPc, mutations, detected, afterStop, stops>>

pageVars == <<doc, content, extractions, input, pass1, pass2, observerVars>>

\* Everything the logger does not touch.
outsideLogger == <<ytVars, adapterVars, pageVars>>

\* Everything the YouTube handler does not touch, the logger apart.
outsideHandler == <<adapterVars, pageVars>>

\* The logger fields a log call leaves alone.
loggerRest == <<chromeAvailable, store, got, clearSt, lastDone, clearRaced>>

vars == <<loggerVars, ytVars, adapterVars, pageVars>>

(***************************************************************************)
(* Bounds                                                                  *)
(***************************************************************************)
MaxStoreCalls == 3   \* log calls in a run of the storage specification
MaxInFlight == 3     \* storage requests in flight in the storage specification
ScenarioCalls == 1500 \* log() calls of the capacity scenario
MaxTail == 2         \* calls of any level that follow the scenario's log() calls
LoggerInFlight == 1  \* storage requests in flight in the capacity specification
MaxInvocations == 2  \* timers set, hence processVideo invocations, in a run
MaxNav == 1          \* navigations of the page in a run
MaxTriggers == 3     \* timers set in a run of the navigation specification
MaxHrefChanges == 2  \* navigations in a run of the navigation specification
MaxGenerations == 3  \* generateResponse calls in a run
MaxTextLen == 5      \* characters of a body text given to the de-duplication
MaxElems == 2        \* product candidate elements in a document
MaxNodes == 2        \* child nodes of the body
MaxExtractions == 2  \* getAllPageContent() calls in a run
MaxMutations == 3    \* DOM mutations in a run of the observer specification
MaxStops == 2        \* stop() calls in a run of the observer specification

(***************************************************************************)
(* Logger                                                                  *)
(***************************************************************************)
maxLogs == 1000

LogTypes == {"log", "warn", "error"}

\* The prefix addLog puts between the timestamp and the message.
Emoji(type) == IF type = "error" THEN "x" ELSE IF type = "warn" THEN "!" ELSE ""

\* The formatted entry: timestamp, level prefix, message (with its arguments).
LogEntry(ts, type, message) == [ts |-> ts, mark |-> Emoji(type), text |-> message]

\* A truncation that keeps the oldest maxLogs entries: logs.slice(0, maxLogs).
KeepFirst(buf) ==
  IF Len(buf) > maxLogs THEN SubSeq(buf, 1, maxLogs) ELSE buf

\* logs.slice(-maxLogs) when the buffer is over capacity.
KeepLast(buf) ==
  IF Len(buf) > maxLogs THEN SubSeq(buf, Len(buf) - maxLogs + 1, Len(buf)) ELSE buf

SetOp(buf) == [op |-> "set", val |-> buf, clean |-> FALSE]
RemoveOp == [op |-> "remove", val |-> <<>>, clean |-> FALSE]
GetOp(want, clean) == [op |-> "get", val |-> want, clean |-> clean]

\* The logger fields one addLog call reads and writes.
Cur == [logs |-> logs, calls |-> calls, pending |-> pending]

\* addLog that mirrors the buffer as it was before the push.
AddLogStale(L, type, message) ==
  LET buf == KeepLast(Append(L.logs, LogEntry(L.calls + 1, type, message)))
  IN [logs |-> buf,
      calls |-> L.calls + 1,
      pending |-> IF chromeAvailable THEN Append(L.pending, SetOp(L.logs)) ELSE L.pending]

\* addLog: push, truncate to the last maxLogs, mirror to chrome.storage.
AddLog(L, type, message) ==
  LET buf == KeepLast(Append(L.logs, LogEntry(L.calls + 1, type, message)))
  IN [logs |-> buf,
      calls |-> L.calls + 1,
      pending |-> IF chromeAvailable THEN Append(L.pending, SetOp(buf)) ELSE L.pending]

\* A run of log calls made by one synchronous stretch of code.
RECURSIVE LogAll(_, _)
LogAll(L, msgs) ==
  IF msgs = <<>> THEN L
  ELSE LogAll(AddLog(L, msgs[1][1], msgs[1][2]), Tail(msgs))

\* Assign the logger fields after a stretch of code that logged.
Logged(L) ==
  /\ logs' = L.logs
  /\ calls' = L.calls
  /\ pending' = L.pending
  /\ logSinceClear' = (logSinceClear \/ L.calls > calls)

NoStore == [present |-> FALSE, val |-> <<>>]
NoGot == [has |-> FALSE, val |-> <<>>, want |-> <<>>, ok |-> FALSE, clean |-> FALSE]

\* result['youtube-handler-logs'] || []
StoredLogs == IF store.present THEN store.val ELSE <<>>

HasWrite(q) == \E i \in 1..Len(q) : q[i].op \in {"set", "remove"}
HasSet(q) == \E i \in 1..Len(q) : q[i].op = "set"

log(message) ==
  /\ Logged(AddLog(Cur, "log", message))
  /\ UNCHANGED <<chromeAvailable, store, got, clearSt, lastDone, clearRaced, outsideLogger>>

warn(message) ==
  /\ Logged(AddLog(Cur, "warn", message))
  /\ UNCHANGED <<chromeAvailable, store, got, clearSt, lastDone, clearRaced, outsideLogger>>

error(message) ==
  /\ Logged(AddLog(Cur, "error", message))
  /\ UNCHANGED <<chromeAvailable, store, got, clearSt, lastDone, clearRaced, outsideLogger>>

\* getLogs(): read the store when there is one, else the in-memory buffer.
getLogs ==
  /\ ~got.has
  /\ LET clean == (clearSt = "done" /\ ~logSinceClear)
     IN IF chromeAvailable
        THEN /\ pending' = Append(pending, GetOp(logs, clean))
             /\ got' = got
        ELSE /\ got' = [has |-> TRUE, val |-> logs, want |-> logs, ok |-> TRUE,
                        clean |-> clean]
             /\ pending' = pending
  /\ UNCHANGED <<logs, calls, chromeAvailable, store, clearSt, lastDone,
                 logSinceClear, clearRaced, outsideLogger>>

\* viewYoutubeHandlerLogs: the caller of getLogs() prints the result.
viewYoutubeHandlerLogs ==
  /\ got.has
  /\ got' = NoGot
  /\ UNCHANGED <<logs, calls, chromeAvailable, store, pending, clearSt, lastDone,
                 logSinceClear, clearRaced, outsideLogger>>

\* clearLogs() that empties the in-memory buffer only.
clearLogsMemoryOnly ==
  /\ clearSt # "awaiting"
  /\ logs' = <<>>
  /\ logSinceClear' = FALSE
  /\ clearRaced' = HasSet(pending)
  /\ clearSt' = "done"
  /\ UNCHANGED <<calls, chromeAvailable, store, pending, got, lastDone, outsideLogger>>

\* clearLogs(): empty the buffer, then await the removal of the stored key.
clearLogs ==
  /\ clearSt # "awaiting"
  /\ logs' = <<>>
  /\ logSinceClear' = FALSE
  /\ clearRaced' = HasSet(pending)
  /\ IF chromeAvailable
     THEN /\ pending' = Append(pending, RemoveOp)
          /\ clearSt' = "awaiting"
     ELSE /\ pending' = pending
          /\ clearSt' = "done"
  /\ UNCHANGED <<calls, chromeAvailable, store, got, lastDone, outsideLogger>>

\* chrome.storage.local serves the oldest request; a served remove resumes
\* clearLogs, a served get resolves getLogs.
StorageServe ==
  /\ pending # <<>>
  /\ LET req == Head(pending)
     IN /\ pending' = Tail(pending)
        /\ store' = IF req.op = "set" THEN [present |-> TRUE, val |-> req.val]
                    ELSE IF req.op = "remove" THEN NoStore
                    ELSE store
        /\ lastDone' = IF req.op = "get" THEN lastDone ELSE "applied"
        /\ clearSt' = IF req.op = "remove" THEN "done" ELSE clearSt
        /\ got' = IF req.op = "get"
                  THEN [has |-> TRUE, val |-> StoredLogs, want |-> req.val,
                        ok |-> (lastDone = "applied"), clean |-> req.clean]
                  ELSE got
  /\ UNCHANGED <<logs, calls, chromeAvailable, logSinceClear, clearRaced, outsideLogger>>

\* chrome.storage.local rejects the oldest write (quota, I/O): the promise of
\* a set is dropped by addLog, the promise of a remove rejects clearLogs.
StorageReject ==
  /\ pending # <<>>
  /\ Head(pending).op \in {"set", "remove"}
  /\ pending' = Tail(pending)
  /\ lastDone' = "failed"
  /\ clearSt' = IF Head(pending).op = "remove" THEN "failed" ELSE clearSt
  /\ UNCHANGED <<logs, calls, chromeAvailable, store, got, logSinceClear, clearRaced, outsideLogger>>

\* The buffer a previous page load of the extension left in the store.
OldLogs == <<LogEntry(0, "log", "old")>>

(***************************************************************************)
(* Strings                                                                 *)
(***************************************************************************)
Whitespace == {" ", "\n", "\r", "\t"}

RECURSIVE JoinWith(_, _)
\* Array.prototype.join
JoinWith(parts, sep) ==
  IF parts = <<>> THEN <<>>
  ELSE IF Len(parts) = 1 THEN parts[1]
  ELSE parts[1] \o sep \o JoinWith(Tail(parts), sep)

\* str.replace(/\n/g, ' ')
ReplaceNewlines(str) == [i \in 1..Len(str) |-> IF str[i] = "\n" THEN " " ELSE str[i]]

RECURSIVE TrimLeft(_)
TrimLeft(str) ==
  IF str # <<>> /\ str[1] \in Whitespace THEN TrimLeft(Tail(str)) ELSE str

RECURSIVE TrimRight(_)
TrimRight(str) ==
  IF str # <<>> /\ str[Len(str)] \in Whitespace
  THEN TrimRight(SubSeq(str, 1, Len(str) - 1)) ELSE str

\* String.prototype.trim
Trim(str) == TrimRight(TrimLeft(str))

RECURSIVE SplitLines(_)
\* str.split(/\r?\n/): a line ends before "\n", or before the "\r" in front of it.
SplitLines(str) ==
  LET breaks == {i \in 1..Len(str) : str[i] = "\n"}
  IN IF breaks = {} THEN <<str>>
     ELSE LET i == CHOOSE b \in breaks : \A c \in breaks : b <= c
              upto == IF i > 1 /\ str[i - 1] = "\r" THEN i - 2 ELSE i - 1
          IN <<SubSeq(str, 1, upto)>> \o SplitLines(SubSeq(str, i + 1, Len(str)))

RECURSIVE CollapseWhitespace(_)
\* str.replace(/\s+/g, ' ')
CollapseWhitespace(str) ==
  IF str = <<>> THEN <<>>
  ELSE IF str[1] \in Whitespace THEN <<" ">> \o CollapseWhitespace(TrimLeft(str))
  ELSE <<str[1]>> \o CollapseWhitespace(Tail(str))

RECURSIVE KeepFirstOccurrences(_, _)
\* Array.from(new Set(chunks)): the first occurrence of each chunk, in order.
KeepFirstOccurrences(chunks, seen) ==
  IF chunks = <<>> THEN <<>>
  ELSE IF chunks[1] \in seen THEN KeepFirstOccurrences(Tail(chunks), seen)
  ELSE <<chunks[1]>> \o KeepFirstOccurrences(Tail(chunks), seen \cup {chunks[1]})

MapTrim(lines) == [i \in 1..Len(lines) |-> Trim(lines[i])]
LongerThanOne(line) == Len(line) > 1

\* A de-duplication that drops the short lines before it trims them.
DeDupeFilterFirst(fullText) ==
  LET chunks == MapTrim(SelectSeq(SplitLines(fullText), LongerThanOne))
      uniqueChunks == KeepFirstOccurrences(chunks, {})
  IN Trim(CollapseWhitespace(JoinWith(uniqueChunks, <<"\n">>)))

\* The body of getDeDupedFullText on the text getMainContent returned.
DeDupe(fullText) ==
  LET chunks == SelectSeq(MapTrim(SplitLines(fullText)), LongerThanOne)
      uniqueChunks == KeepFirstOccurrences(chunks, {})
  IN Trim(CollapseWhitespace(JoinWith(uniqueChunks, <<"\n">>)))

Alphabet == {"a", "b", " ", "\n", "\r"}

\* The texts of at most n characters.
Texts(n) == UNION {[1..k -> Alphabet] : k \in 0..n}

NoPass == [done |-> FALSE, val |-> <<>>]

\* getDeDupedFullText on a document whose cleaned body text is input.
DeDupeOnce ==
  /\ ~pass1.done
  /\ pass1' = [done |-> TRUE, val |-> DeDupe(input)]
  /\ UNCHANGED <<doc, content, extractions, input, pass2, observerVars, loggerVars, ytVars,
                 adapterVars>>

\* getDeDupedFullText on a document whose cleaned body text is the first result.
DeDupeAgain ==
  /\ pass1.done
  /\ ~pass2.done
  /\ pass2' = [done |-> TRUE, val |-> DeDupe(pass1.val)]
  /\ UNCHANGED <<doc, content, extractions, input, pass1, observerVars, loggerVars, ytVars,
                 adapterVars>>

(***************************************************************************)
(* YouTube handler                                                         *)
(***************************************************************************)
Videos == {"A", "B"}

\* The player responses a watch page can carry, by the shape of
\* captions.playerCaptionsTracklistRenderer.captionTracks.
PlayerResponses ==
  [nocaptions |-> [hasCaptions |-> FALSE, captionTracks |-> <<>>],
   emptytracks |-> [hasCaptions |-> TRUE, captionTracks |-> <<>>],
   nourl |-> [hasCaptions |-> TRUE, captionTracks |-> <<[baseUrl |-> ""], [baseUrl |-> "u2"]>>],
   withurl |-> [hasCaptions |-> TRUE, captionTracks |-> <<[baseUrl |-> "u1"], [baseUrl |-> ""]>>]]

\* What the page exposes: the global ytInitialPlayerResponse and the inline
\* script that assigns it ("badjson": the matched text is not JSON).
Pages ==
  {[global |-> g, script |-> "none"] : g \in {"none", "nocaptions", "emptytracks", "nourl", "withurl"}}
  \cup {[global |-> "none", script |-> x] : x \in {"badjson", "withurl"}}

\* What the transcript request can end in.
FetchOutcomes == {"ok", "notok", "reject"}

\* The bodies res.text() can give: the parsed document has these <text>
\* contents; a document that is not well formed parses to an error document
\* that holds the <text> elements read before the error, if any.
XmlDocs ==
  {[wellFormed |-> TRUE, texts |-> <<<<"h", "\n", "i">>, <<"y", "o">>>>],
   [wellFormed |-> TRUE, texts |-> <<>>],
   [wellFormed |-> FALSE, texts |-> <<>>],
   [wellFormed |-> FALSE, texts |-> <<<<"h", "i">>>>]}

SummaryLimit == 200

\* getSummary: the first 200 characters and an ellipsis, or the whole text.
getSummary(text) ==
  IF Len(text) > SummaryLimit THEN SubSeq(text, 1, SummaryLimit) \o <<".", ".", ".">> ELSE text

\* getCurrentVideoId: the query parameter v, "null" when absent.
getCurrentVideoId == location

\* getPlayerResponse: the global, else the first script that assigns it.
getPlayerResponse(page) ==
  IF page.global # "none" THEN page.global
  ELSE IF page.script \in {"none", "badjson"} THEN "null"
  ELSE page.script

\* A guard that never skips.
NeverSameVideo(videoId, last) == FALSE

\* videoId === lastVideoId
SameVideo(videoId, last) == videoId = last

\* A handler that lets the caught value escape.
fetchTranscriptRethrow(e) == [ret |-> "throw", err |-> ""]

\* fetchTranscript's catch block.
fetchTranscriptCatch(e) == [ret |-> "null", err |-> "Error fetching transcript:"]

\* fetchTranscript without the test for missing or empty caption tracks.
fetchTranscriptUnchecked(pr) ==
  LET captionTracks == IF pr.hasCaptions THEN pr.captionTracks ELSE <<>>
  IN IF captionTracks # <<>> /\ captionTracks[1].baseUrl = ""
     THEN [ret |-> "null", err |-> "Transcript URL missing"]
     ELSE [ret |-> "await", err |-> ""]

\* fetchTranscript up to its first await.
fetchTranscriptStart(pr) ==
  LET captionTracks == IF pr.hasCaptions THEN pr.captionTracks ELSE <<>>
  IN IF captionTracks = <<>>
     THEN [ret |-> "null", err |-> "No captions available"]
     ELSE IF captionTracks[1].baseUrl = ""
     THEN [ret |-> "null", err |-> "Transcript URL missing"]
     ELSE [ret |-> "await", err |-> ""]

\* fetchTranscript from the settling of fetch() to the await of res.text().
fetchTranscriptOnResponse(out) ==
  IF out = "reject" THEN fetchTranscriptCatch(out)
  ELSE IF out = "notok" THEN [ret |-> "null", err |-> "Failed to fetch transcript XML"]
  ELSE [ret |-> "await", err |-> ""]

\* texts.map(t => t.textContent?.replace(/\n/g, ' ') || '').join(' ')
TranscriptOf(xmlDoc) ==
  JoinWith([i \in 1..Len(xmlDoc.texts) |-> ReplaceNewlines(xmlDoc.texts[i])], <<" ">>)

\* fetchTranscript from the settling of res.text() to its return.
fetchTranscriptOnText(rejected, xmlDoc) ==
  IF rejected THEN fetchTranscriptCatch("reject")
  ELSE IF TranscriptOf(xmlDoc) = <<>> THEN [ret |-> "null", err |-> ""]
  ELSE [ret |-> "text", err |-> ""]

NewInvocation(videoId) ==
  [vid |-> videoId, pc |-> "done", outcome |-> "", cause |-> "", ret |-> "none",
   ftErr |-> "", fetched |-> FALSE, threw |-> FALSE, transcript |-> <<>>,
   summary |-> <<>>, pr |-> "null"]

\* The log calls of fetchTranscript for a result r.
FtLog(r) == IF r.err = "" THEN <<>> ELSE <<<<"error", r.err>>>>

\* processVideo after fetchTranscript has returned r with transcript text t:
\* the invocation record and the log calls.
AfterTranscript(inv, r, cause, t) ==
  IF r.ret = "throw"
  THEN [inv |-> [inv EXCEPT !.pc = "done", !.outcome = "threw", !.cause = cause,
                            !.ret = "throw", !.threw = TRUE],
        msgs |-> <<>>]
  ELSE IF r.ret = "null"
  THEN [inv |-> [inv EXCEPT !.pc = "done", !.outcome = "notranscript", !.cause = cause,
                            !.ret = "null", !.ftErr = r.err],
        msgs |-> FtLog(r) \o <<<<"log", "Transcript received: false">>,
                               <<"error", "Transcript not found or empty">>>>]
  ELSE [inv |-> [inv EXCEPT !.pc = "done", !.outcome = "summarized", !.cause = cause,
                            !.ret = "text", !.transcript = t, !.summary = getSummary(t)],
        msgs |-> <<<<"log", "Transcript received: true">>,
                   <<"log", "Transcript:">>,
                   <<"log", "Generating summary...">>,
                   <<"log", "Processing text for summary...">>,
                   <<"log", "Text length:">>,
                   <<"log", "Generated summary:">>,
                   <<"log", "Summary:">>>>]

\* A processVideo that would forget the last video when the URL has none.
lastVideoIdClearedWithoutId(last) == "null"

\* The return at "No video ID in URL" leaves lastVideoId as it is.
lastVideoIdWithoutId(last) == last

\* A processVideo that would assign lastVideoId only after its awaits.
lastVideoIdAfterAwait(videoId, last) == last

\* lastVideoId = videoId, right after the guard and before any await.
lastVideoIdAtGuard(videoId, last) == videoId

\* The message of the timer callback set by each trigger.
TimerMsg(kind) ==
  IF kind = "initial" THEN "Running initial video processing..."
  ELSE IF kind = "nav" THEN "Processing video after navigation..."
  ELSE "Processing video after URL change..."

\* processVideo from its call to its first suspension or its return: the
\* invocation record, the log calls, the new lastVideoId, whether fetch()
\* was called.
processVideoStart(page) ==
  LET videoId == getCurrentVideoId
      inv == NewInvocation(videoId)
      head == <<<<"log", "Starting processVideo function...">>,
                <<"log", "Current video ID:">>>>
      playerResponse == getPlayerResponse(page)
      r == fetchTranscriptStart(PlayerResponses[playerResponse])
      after == AfterTranscript([inv EXCEPT !.pr = playerResponse], r,
                               IF r.err = "No captions available" THEN "nocaptions" ELSE "nourl",
                               <<>>)
  IN IF videoId = "null"
     THEN [inv |-> [inv EXCEPT !.outcome = "noid"],
           msgs |-> head \o <<<<"error", "No video ID in URL">>>>,
           last |-> lastVideoIdWithoutId(lastVideoId), fetch |-> FALSE]
     ELSE IF SameVideo(videoId, lastVideoId)
     THEN [inv |-> [inv EXCEPT !.outcome = "same"],
           msgs |-> head \o <<<<"log", "Same video, skipping">>>>,
           last |-> lastVideoId, fetch |-> FALSE]
     ELSE IF playerResponse = "null"
     THEN [inv |-> [inv EXCEPT !.outcome = "noplayer"],
           msgs |-> head \o <<<<"log", "Processing video:">>,
                              <<"log", "Player response received: false">>,
                              <<"error", "ytInitialPlayerResponse not found">>>>,
           last |-> lastVideoIdAtGuard(videoId, lastVideoId), fetch |-> FALSE]
     ELSE IF r.ret = "await"
     THEN [inv |-> [inv EXCEPT !.pc = "fetch", !.outcome = "running", !.ret = "pending",
                               !.fetched = TRUE, !.pr = playerResponse],
           msgs |-> head \o <<<<"log", "Processing video:">>,
                              <<"log", "Player response received: true">>,
                              <<"log", "Attempting to fetch transcript...">>>>,
           last |-> lastVideoIdAtGuard(videoId, lastVideoId), fetch |-> TRUE]
     ELSE [inv |-> after.inv,
           msgs |-> head \o <<<<"log", "Processing video:">>,
                              <<"log", "Player response received: true">>,
                              <<"log", "Attempting to fetch transcript...">>>> \o after.msgs,
           last |-> lastVideoIdAtGuard(videoId, lastVideoId), fetch |-> FALSE]

\* initializeYouTubeHandling: set the initial timer, install the listener
\* and the URL-change observer.
initializeYouTubeHandling ==
  /\ ~inited
  /\ inited' = TRUE
  /\ timers' = Append(timers, "initial")
  /\ lastUrl' = location
  /\ Logged(LogAll(Cur, <<<<"log", "Initializing YouTube handling...">>,
                          <<"log", "Setting up initial video processing...">>,
                          <<"log", "Setting up yt-navigate-finish listener...">>,
                          <<"log", "Setting up URL change observer...">>,
                          <<"log", "YouTube handling initialization complete">>>>))
  /\ UNCHANGED <<outsideHandler, loggerRest, lastVideoId, location, invs, fetches, navs>>

\* The user moves to another URL of the single-page application.
Navigate(v) ==
  /\ v # location
  /\ location' = v
  /\ navs' = navs + 1
  /\ UNCHANGED <<outsideHandler, loggerVars, lastVideoId, lastUrl, inited, timers, invs, fetches>>

\* The listener of yt-navigate-finish: set a timer.
ytNavigateFinish ==
  /\ inited
  /\ timers' = Append(timers, "nav")
  /\ Logged(AddLog(Cur, "log", "yt-navigate-finish detected"))
  /\ UNCHANGED <<outsideHandler, loggerRest, lastVideoId, location, lastUrl, inited, invs, fetches, navs>>

\* An observer callback that would not remember the href it has seen.
urlChangeObserverForgetful ==
  /\ inited
  /\ location # lastUrl
  /\ timers' = Append(timers, "url")
  /\ Logged(AddLog(Cur, "log", "URL changed detected by MutationObserver"))
  /\ UNCHANGED <<outsideHandler, loggerRest, lastVideoId, location, lastUrl, inited, invs,
                 fetches, navs>>

\* The MutationObserver callback when location.href differs from lastUrl
\* (it does nothing otherwise): remember the href and set a timer.
urlChangeObserver ==
  /\ inited
  /\ location # lastUrl
  /\ lastUrl' = location
  /\ timers' = Append(timers, "url")
  /\ Logged(AddLog(Cur, "log", "URL changed detected by MutationObserver"))
  /\ UNCHANGED <<outsideHandler, loggerRest, lastVideoId, location, inited, invs, fetches, navs>>

\* The oldest timer fires (all timers have the same delay): its callback logs
\* and calls processVideo, which runs up to its first suspension.
TimerFires(page) ==
  /\ timers # <<>>
  /\ LET p == processVideoStart(page)
     IN /\ timers' = Tail(timers)
        /\ invs' = Append(invs, p.inv)
        /\ lastVideoId' = p.last
        /\ fetches' = IF p.fetch THEN fetches + 1 ELSE fetches
        /\ Logged(LogAll(Cur, <<<<"log", TimerMsg(Head(timers))>>>> \o p.msgs))
  /\ UNCHANGED <<outsideHandler, loggerRest, location, lastUrl, inited, navs>>

\* A continuation that would clear lastVideoId when the request has failed,
\* so that the next trigger tries the video again.
FetchSettlesRetry(i, out) ==
  /\ i \in 1..Len(invs)
  /\ invs[i].pc = "fetch"
  /\ LET r == fetchTranscriptOnResponse(out)
         after == AfterTranscript(invs[i], r, out, <<>>)
     IN IF r.ret = "await"
        THEN /\ invs' = [invs EXCEPT ![i].pc = "text"]
             /\ UNCHANGED <<logs, calls, pending, logSinceClear, lastVideoId>>
        ELSE /\ invs' = [invs EXCEPT ![i] = after.inv]
             /\ lastVideoId' = "null"
             /\ Logged(LogAll(Cur, after.msgs))
  /\ UNCHANGED <<outsideHandler, loggerRest, location, lastUrl, inited, timers, fetches, navs>>

\* fetch() settles for invocation i: fetchTranscript resumes, and processVideo
\* with it when fetchTranscript returns.
FetchSettles(i, out) ==
  /\ i \in 1..Len(invs)
  /\ invs[i].pc = "fetch"
  /\ LET r == fetchTranscriptOnResponse(out)
         after == AfterTranscript(invs[i], r, out, <<>>)
     IN IF r.ret = "await"
        THEN /\ invs' = [invs EXCEPT ![i].pc = "text"]
             /\ UNCHANGED <<logs, calls, pending, logSinceClear>>
        ELSE /\ invs' = [invs EXCEPT ![i] = after.inv]
             /\ Logged(LogAll(Cur, after.msgs))
  /\ UNCHANGED <<outsideHandler, loggerRest, lastVideoId, location, lastUrl, inited, timers, fetches, navs>>

\* A continuation that would store its own video id again when it ends.
TextSettlesWritesBack(i, rejected, xmlDoc) ==
  /\ i \in 1..Len(invs)
  /\ invs[i].pc = "text"
  /\ LET r == fetchTranscriptOnText(rejected, xmlDoc)
         cause == IF rejected THEN "textreject"
                  ELSE IF ~xmlDoc.wellFormed THEN "unparsable"
                  ELSE IF r.ret = "null" THEN "empty" ELSE "none"
         after == AfterTranscript(invs[i], r, cause,
                                  IF rejected THEN <<>> ELSE TranscriptOf(xmlDoc))
     IN /\ invs' = [invs EXCEPT ![i] = after.inv]
        /\ Logged(LogAll(Cur, after.msgs))
  /\ lastVideoId' = invs[i].vid
  /\ UNCHANGED <<outsideHandler, loggerRest, location, lastUrl, inited, timers, fetches, navs>>

\* res.text() settles for invocation i: the body is parsed, fetchTranscript
\* returns and processVideo runs to its end.
TextSettles(i, rejected, xmlDoc) ==
  /\ i \in 1..Len(invs)
  /\ invs[i].pc = "text"
  /\ LET r == fetchTranscriptOnText(rejected, xmlDoc)
         cause == IF rejected THEN "textreject"
                  ELSE IF ~xmlDoc.wellFormed THEN "unparsable"
                  ELSE IF r.ret = "null" THEN "empty" ELSE "none"
         after == AfterTranscript(invs[i], r, cause,
                                  IF rejected THEN <<>> ELSE TranscriptOf(xmlDoc))
     IN /\ invs' = [invs EXCEPT ![i] = after.inv]
        /\ Logged(LogAll(Cur, after.msgs))
  /\ UNCHANGED <<outsideHandler, loggerRest, lastVideoId, location, lastUrl, inited, timers, fetches, navs>>

(***************************************************************************)
(* Model adapter (GeminiAI_2_0_flash)                                      *)
(***************************************************************************)
VALID_MODELS ==
  <<[model |-> "gpt-3.5-turbo", name |-> "openai_3.5_turbo", display |-> "GPT-3.5 Turbo"],
    [model |-> "gpt-4o", name |-> "openai_4o", display |-> "GPT-4 Optimized"],
    [model |-> "gemini-2.0-flash", name |-> "gemini_2.0_flash", display |-> "Gemini 2.0 Flash"]>>

\* The name field of the adapter.
name == "gemini_2.0_flash"

\* VALID_MODELS.find((model) => model.name === n)?.model
FindModel(n) ==
  LET hits == {i \in 1..Len(VALID_MODELS) : VALID_MODELS[i].name = n}
  IN IF hits = {} THEN "undefined"
     ELSE VALID_MODELS[CHOOSE i \in hits : \A j \in hits : i <= j].model

ApiKeys == {"", "k1", "k2"}
Prompts == {"p1", "p2"}
Objects == {"o1", "o2"}

\* How the statements before the helper call can end: the client factory
\* raises, the model factory raises, or both return.
Constructions == {"clientRaises", "modelRaises", "ok"}

\* How the helper call can settle: it resolves with a result that carries an
\* object, resolves with nothing (reading .object raises), or rejects.
Settlements ==
  {[kind |-> "resolve", object |-> o] : o \in Objects}
  \cup {[kind |-> "nothing", object |-> "null"], [kind |-> "reject", object |-> "null"]}

NoRequest == [model |-> "", apiKey |-> "", prompt |-> ""]
NoOutcome == [kind |-> "none", object |-> "null"]
NoResult == [error |-> "null", success |-> "null", threw |-> FALSE]

\* A handler that lets the caught value escape to the caller.
generateResponseRethrow(e) == [error |-> e, success |-> "null", threw |-> TRUE]

\* The catch block of generateResponse.
generateResponseCatch(e) == [error |-> e, success |-> "null", threw |-> FALSE]

\* init(apiKey)
init(key) ==
  /\ apiKey' = key
  /\ apiKey # key
  /\ UNCHANGED <<genPc, genRequest, genOutcome, genResult, genCalls, providerCalls,
                 generations, loggerVars, ytVars, pageVars>>

\* generateResponse up to the await of the helper, or to the return of the
\* catch block when building the client or the model raises.
generateResponse(props, construction) ==
  /\ genPc # "awaiting"
  /\ generations' = generations + 1
  /\ genOutcome' = NoOutcome
  /\ IF construction = "ok"
     THEN /\ genPc' = "awaiting"
          /\ genRequest' = [model |-> FindModel(name), apiKey |-> apiKey, prompt |-> props]
          /\ genCalls' = 1
          /\ providerCalls' = providerCalls + 1
          /\ genResult' = NoResult
     ELSE /\ genPc' = "done"
          /\ genRequest' = NoRequest
          /\ genCalls' = 0
          /\ providerCalls' = providerCalls
          /\ genResult' = generateResponseCatch(construction)
  /\ UNCHANGED <<apiKey, loggerVars, ytVars, pageVars>>

\* The helper call settles and generateResponse returns.
HelperSettles(out) ==
  /\ genPc = "awaiting"
  /\ genPc' = "done"
  /\ genOutcome' = out
  /\ genResult' = IF out.kind = "resolve"
                  THEN [error |-> "null", success |-> out.object, threw |-> FALSE]
                  ELSE IF out.kind = "nothing" THEN generateResponseCatch("TypeError")
                  ELSE generateResponseCatch("rejected")
  /\ UNCHANGED <<apiKey, genRequest, genCalls, providerCalls, generations, loggerVars, ytVars, pageVars>>

AdapterIdle ==
  /\ apiKey = ""
  /\ genPc = "idle"
  /\ genRequest = NoRequest
  /\ genOutcome = NoOutcome
  /\ genResult = NoResult
  /\ genCalls = 0
  /\ providerCalls = 0
  /\ generations = 0

(***************************************************************************)
(* Page extractor. Text values are character sequences; a null attribute   *)
(* or field is the empty sequence, which the code treats like '' wherever  *)
(* it reads one (||, if) and never returns as a product field.             *)
(***************************************************************************)
ProductSelectors ==
  <<"product-item", "product-card", "js-product-list-item", "grid-product",
    "product-container", "item-card">>

\* The extraction functions, each with its own try/catch.
Functions == {"title", "description", "dedupe", "metadata", "products"}

\* What a candidate element can hold below it.
ElementDetails ==
  {[nameEl |-> TRUE, nameText |-> <<" ", "n", " ">>, priceEl |-> FALSE, priceText |-> <<>>,
    dataPrice |-> <<>>, imgEl |-> FALSE, src |-> <<>>, raises |-> FALSE],
   [nameEl |-> FALSE, nameText |-> <<>>, priceEl |-> TRUE, priceText |-> <<" ">>,
    dataPrice |-> <<"9">>, imgEl |-> FALSE, src |-> <<>>, raises |-> FALSE],
   [nameEl |-> TRUE, nameText |-> <<" ">>, priceEl |-> TRUE, priceText |-> <<"$", "5">>,
    dataPrice |-> <<"9">>, imgEl |-> TRUE, src |-> <<"i">>, raises |-> FALSE],
   [nameEl |-> TRUE, nameText |-> <<" ">>, priceEl |-> TRUE, priceText |-> <<>>,
    dataPrice |-> <<>>, imgEl |-> TRUE, src |-> <<>>, raises |-> FALSE],
   [nameEl |-> TRUE, nameText |-> <<"n">>, priceEl |-> FALSE, priceText |-> <<>>,
    dataPrice |-> <<>>, imgEl |-> FALSE, src |-> <<>>, raises |-> TRUE]}

SelectorNames == {ProductSelectors[k] : k \in 1..Len(ProductSelectors)}

\* The class attributes of the elements: no product class, one of them, or
\* the first two together.
ClassSets ==
  {{}} \cup {{c} : c \in SelectorNames} \cup {{ProductSelectors[1], ProductSelectors[2]}}

Elements == {[classes |-> c, details |-> d] : c \in ClassSets, d \in ElementDetails}

ElementSeqs == UNION {[1..k -> Elements] : k \in 0..MaxElems}

NodeTexts == {<<"a", "b">>, <<" ", "c", "\n">>, <<"a", "b", "\n", "a", "b">>}

Nodes == {[tag |-> t, text |-> x] : t \in {"#text", "p", "script", "style"}, x \in NodeTexts}

NodeSeqs == UNION {[1..k -> Nodes] : k \in 0..MaxNodes}

Meta(n, prop, c) == [name |-> n, property |-> prop, content |-> c]

EmptyDoc ==
  [title |-> <<>>, metas |-> <<>>, body |-> [present |-> TRUE, nodes |-> <<>>],
   ldjson |-> <<>>, elems |-> <<>>, faults |-> {}]

RichDoc ==
  [title |-> <<"D", "e", "m", "o">>,
   metas |-> <<Meta("author", "", <<"m", "e">>),
               Meta("", "og:description", <<"o", "g">>),
               Meta("description", "", <<"d", "1">>),
               Meta("keywords", "", <<>>)>>,
   body |-> [present |-> TRUE,
             nodes |-> <<[tag |-> "script", text |-> <<"x">>],
                         [tag |-> "p", text |-> <<" ", "H", "i", " ">>],
                         [tag |-> "#text", text |-> <<"\n", "H", "i">>]>>],
   ldjson |-> <<[ok |-> FALSE, pairs |-> <<>>],
                [ok |-> TRUE, pairs |-> <<<<"author", <<"l", "d">>>>, <<"@type", <<"T">>>>>>]>>,
   elems |-> <<[classes |-> {"product-card"}, details |-> CHOOSE d \in ElementDetails : d.src = <<"i">>]>>,
   faults |-> {}]

DocsFaults ==
  {[d EXCEPT !.faults = f, !.body.present = b] :
     d \in {EmptyDoc, RichDoc}, f \in SUBSET Functions, b \in BOOLEAN}

DocsProducts == {[RichDoc EXCEPT !.elems = e] : e \in ElementSeqs}

DocsBodies == {[EmptyDoc EXCEPT !.body.nodes = n] : n \in NodeSeqs}

DescriptionContents == {"absent", "empty", "blank", "text"}

MetaFor(which, attrName, attrProperty, c) ==
  IF which = "absent" THEN <<>>
  ELSE IF which = "empty" THEN <<Meta(attrName, attrProperty, <<>>)>>
  ELSE IF which = "blank" THEN <<Meta(attrName, attrProperty, <<" ">>)>>
  ELSE <<Meta(attrName, attrProperty, c)>>

ParagraphFor(which) ==
  IF which = "absent" THEN <<>>
  ELSE IF which = "empty" THEN <<[tag |-> "p", text |-> <<>>]>>
  ELSE IF which = "blank" THEN <<[tag |-> "p", text |-> <<" ", "\n">>]>>
  ELSE <<[tag |-> "p", text |-> <<" ", "H", "i">>], [tag |-> "p", text |-> <<"p", "2">>]>>

DocsDescriptions ==
  {[EmptyDoc EXCEPT
      !.metas = MetaFor(og, "", "og:description", <<"o", "g">>)
                \o MetaFor(md, "description", "", <<"d", "1">>)
                \o MetaFor(md, "description", "", <<"d", "2">>),
      !.body.nodes = ParagraphFor(para)] :
     md \in DescriptionContents, og \in DescriptionContents, para \in DescriptionContents}

Docs == DocsFaults \cup DocsProducts \cup DocsBodies \cup DocsDescriptions

\* A function whose catch block is missing: the error reaches the caller.
Propagate(raised, val, default) ==
  [threw |-> raised, val |-> IF raised THEN default ELSE val]

\* try { return val } catch { return default }
CatchAndDefault(raised, val, default) ==
  [threw |-> FALSE, val |-> IF raised THEN default ELSE val]

\* getPageTitle
getPageTitle(d) == CatchAndDefault("title" \in d.faults, d.title, <<>>)

FirstWhere(seq, Test(_)) ==
  LET hits == {i \in 1..Len(seq) : Test(seq[i])}
  IN IF hits = {} THEN 0 ELSE CHOOSE i \in hits : \A j \in hits : i <= j

\* document.querySelector(sel)?.getAttribute('content') for a meta selector
MetaContent(d, attr, value) ==
  LET IsIt(m) == m[attr] = value
      i == FirstWhere(d.metas, IsIt)
  IN IF i = 0 THEN <<>> ELSE d.metas[i].content

\* document.querySelector('p')?.textContent?.trim()
FirstParagraph(d) ==
  LET IsP(n) == n.tag = "p"
      nodes == IF d.body.present THEN d.body.nodes ELSE <<>>
      i == FirstWhere(nodes, IsP)
  IN IF i = 0 THEN <<>> ELSE Trim(nodes[i].text)

\* A getPageDescription that tries the OpenGraph description first.
getPageDescriptionOgFirst(d) ==
  CatchAndDefault("description" \in d.faults,
    IF MetaContent(d, "property", "og:description") # <<>>
    THEN MetaContent(d, "property", "og:description")
    ELSE IF MetaContent(d, "name", "description") # <<>>
    THEN MetaContent(d, "name", "description")
    ELSE FirstParagraph(d),
    <<>>)

\* getPageDescription
getPageDescription(d) ==
  CatchAndDefault("description" \in d.faults,
    IF MetaContent(d, "name", "description") # <<>>
    THEN MetaContent(d, "name", "description")
    ELSE IF MetaContent(d, "property", "og:description") # <<>>
    THEN MetaContent(d, "property", "og:description")
    ELSE FirstParagraph(d),
    <<>>)

RECURSIVE TextContent(_)
\* textContent of the body clone after script and style were removed
TextContent(nodes) ==
  IF nodes = <<>> THEN <<>>
  ELSE (IF nodes[1].tag \in {"script", "style"} THEN <<>> ELSE nodes[1].text)
       \o TextContent(Tail(nodes))

\* getMainContent: document.body.cloneNode raises when there is no body.
getMainContent(d) ==
  CatchAndDefault(~d.body.present,
    IF d.body.present THEN Trim(TextContent(d.body.nodes)) ELSE <<>>,
    <<>>)

\* getDeDupedFullText
getDeDupedFullText(d) ==
  CatchAndDefault("dedupe" \in d.faults \/ getMainContent(d).threw,
                  DeDupe(getMainContent(d).val), <<>>)

\* metadata[key] = value
Assign(m, key, value) ==
  [k \in DOMAIN m \cup {key} |-> IF k = key THEN value ELSE m[k]]

RECURSIVE MergeMetas(_, _)
MergeMetas(m, metas) ==
  IF metas = <<>> THEN m
  ELSE LET n == IF metas[1].name # "" THEN metas[1].name ELSE metas[1].property
       IN MergeMetas(IF n # "" /\ metas[1].content # <<>>
                     THEN Assign(m, n, metas[1].content) ELSE m,
                     Tail(metas))

RECURSIVE AssignAll(_, _)
\* Object.assign(metadata, data)
AssignAll(m, pairs) ==
  IF pairs = <<>> THEN m
  ELSE AssignAll(Assign(m, pairs[1][1], pairs[1][2]), Tail(pairs))

RECURSIVE MergeStructured(_, _)
MergeStructured(m, scripts) ==
  IF scripts = <<>> THEN m
  ELSE MergeStructured(IF scripts[1].ok THEN AssignAll(m, scripts[1].pairs) ELSE m,
                       Tail(scripts))

\* getMetadata
getMetadata(d) ==
  CatchAndDefault("metadata" \in d.faults,
                  MergeStructured(MergeMetas(<<>>, d.metas), d.ldjson), <<>>)

HasClass(el, sel) == sel \in el.classes

RECURSIVE QueryLastSelector(_, _)
\* A selector loop without its break: the last selector that matches wins.
QueryLastSelector(selectors, elems) ==
  IF selectors = <<>> THEN <<>>
  ELSE LET IsMatch(el) == HasClass(el, selectors[Len(selectors)])
           found == SelectSeq(elems, IsMatch)
       IN IF found # <<>> THEN found
          ELSE QueryLastSelector(SubSeq(selectors, 1, Len(selectors) - 1), elems)

RECURSIVE QueryFirstSelector(_, _)
\* The selector loop: the elements of the first selector that matches any.
QueryFirstSelector(selectors, elems) ==
  IF selectors = <<>> THEN <<>>
  ELSE LET IsMatch(el) == HasClass(el, selectors[1])
           found == SelectSeq(elems, IsMatch)
       IN IF found # <<>> THEN found
          ELSE QueryFirstSelector(Tail(selectors), elems)

\* The name, price and imageUrl read below one candidate element.
ProductOf(el) ==
  LET x == el.details
  IN [name |-> IF x.nameEl THEN Trim(x.nameText) ELSE <<>>,
      price |-> IF ~x.priceEl THEN <<>>
                ELSE IF Trim(x.priceText) # <<>> THEN Trim(x.priceText)
                ELSE x.dataPrice,
      imageUrl |-> IF x.imgEl THEN x.src ELSE <<>>]

HasDetail(product) ==
  product.name # <<>> \/ product.price # <<>> \/ product.imageUrl # <<>>

RECURSIVE CollectProducts(_)
\* productElements.forEach: push when a detail was found, skip on an error.
CollectProducts(elems) ==
  IF elems = <<>> THEN <<>>
  ELSE (IF ~elems[1].details.raises /\ HasDetail(ProductOf(elems[1]))
        THEN <<ProductOf(elems[1])>> ELSE <<>>)
       \o CollectProducts(Tail(elems))

\* extractProducts
extractProducts(d) ==
  CatchAndDefault("products" \in d.faults,
                  CollectProducts(QueryFirstSelector(ProductSelectors, d.elems)), <<>>)

NoContent ==
  [done |-> FALSE, threw |-> FALSE, title |-> <<>>, description |-> <<>>,
   mainContent |-> <<>>, deDupedFullText |-> <<>>, url |-> "null", metadata |-> <<>>,
   products |-> <<>>]

\* The PageContent getAllPageContent builds.
PageContentOf(d) ==
  [done |-> TRUE,
   threw |-> \/ getPageTitle(d).threw
             \/ getPageDescription(d).threw
             \/ getMainContent(d).threw
             \/ getDeDupedFullText(d).threw
             \/ getMetadata(d).threw
             \/ extractProducts(d).threw,
   title |-> getPageTitle(d).val,
   description |-> getPageDescription(d).val,
   mainContent |-> getMainContent(d).val,
   deDupedFullText |-> getDeDupedFullText(d).val,
   url |-> location,
   metadata |-> getMetadata(d).val,
   products |-> extractProducts(d).val]

\* The log calls of the extraction functions and of getAllPageContent.
ExtractionLog(d) ==
  <<<<"log", "Extracting all page content...">>,
    <<IF "title" \in d.faults THEN "error" ELSE "log", "Page title">>,
    <<IF "description" \in d.faults THEN "error" ELSE "log", "Page description">>,
    <<IF d.body.present THEN "log" ELSE "error", "Main content">>,
    <<IF d.body.present THEN "log" ELSE "error", "Main content">>,
    <<IF "dedupe" \in d.faults THEN "error" ELSE "log", "De-duplicated full text">>,
    <<IF "metadata" \in d.faults THEN "error" ELSE "log", "Metadata">>,
    <<IF "products" \in d.faults THEN "error"
      ELSE IF QueryFirstSelector(ProductSelectors, d.elems) = <<>> THEN "warn"
      ELSE "log", "Products">>,
    <<"log", "All the content">>,
    <<"log", "De-duplicated Full Text">>,
    <<"log", IF extractProducts(d).val # <<>> THEN "Extracted Products"
             ELSE "No Products Extracted">>,
    <<"log", "Page content extracted summary:">>>>

\* getAllPageContent
getAllPageContent ==
  /\ extractions' = extractions + 1
  /\ content' = PageContentOf(doc)
  /\ Logged(LogAll(Cur, ExtractionLog(doc)))
  /\ UNCHANGED <<doc, input, pass1, pass2, observerVars, loggerRest, ytVars, adapterVars>>

\* What { childList, subtree, characterData } on document.body reports: a
\* change of the children or of the text of a node below the body, not a
\* change of an attribute and nothing outside the body.
MutationKinds == {"childList", "characterData", "attributes", "head"}

Observed(kind) == kind \in {"childList", "characterData"}

\* The document after a mutation of the given kind.
Mutated(d, kind) ==
  IF kind = "childList"
  THEN [d EXCEPT !.body.nodes = Append(@, [tag |-> "p", text |-> <<"a", "b">>])]
  ELSE IF kind = "characterData" /\ d.body.nodes # <<>>
  THEN [d EXCEPT !.body.nodes[1].text = <<"c">>]
  ELSE IF kind = "head"
  THEN [d EXCEPT !.title = <<"T">>]
  ELSE d

\* initializePageExtraction: observe(document.body) raises a TypeError when
\* there is no body, before the initial extraction.
initializePageExtraction ==
  /\ initPc = "idle"
  /\ IF doc.body.present
     THEN /\ initPc' = "returned"
          /\ observer' = "connected"
          /\ extractions' = extractions + 1
          /\ content' = PageContentOf(doc)
          /\ Logged(LogAll(Cur, <<<<"log", "Initializing page content extraction...">>,
                                  <<"log", "Content change observer initialized">>>>
                                \o ExtractionLog(doc)))
     ELSE /\ initPc' = "threw"
          /\ Logged(AddLog(Cur, "log", "Initializing page content extraction..."))
          /\ UNCHANGED <<observer, extractions, content>>
  /\ UNCHANGED <<doc, input, pass1, pass2, records, mutations, detected, afterStop, stops,
                 loggerRest, ytVars, adapterVars>>

\* The page changes its document: the browser queues a record for a
\* connected observer when the mutation is one it observes.
Mutation(kind) ==
  /\ kind \in {"childList", "attributes"} => doc.body.present
  /\ kind = "characterData" => doc.body.present /\ doc.body.nodes # <<>>
  /\ doc' = Mutated(doc, kind)
  /\ mutations' = mutations + 1
  /\ records' = IF observer = "connected" /\ Observed(kind) THEN records + 1 ELSE records
  /\ detected' = IF observer = "connected" /\ Observed(kind) THEN detected + 1 ELSE detected
  /\ afterStop' = IF stops > 0 /\ Observed(kind) THEN afterStop + 1 ELSE afterStop
  /\ UNCHANGED <<content, extractions, input, pass1, pass2, observer, initPc, stops,
                 loggerVars, ytVars, adapterVars>>

\* A stop() that forgets to disconnect the observer.
stopWithoutDisconnect ==
  /\ initPc = "returned"
  /\ stops' = stops + 1
  /\ Logged(AddLog(Cur, "log", "Page content observer stopped"))
  /\ UNCHANGED <<doc, content, extractions, input, pass1, pass2, observer, records, initPc,
                 mutations, detected, afterStop, loggerRest, ytVars, adapterVars>>

\* stop() of the returned handle: disconnect() also drops the queued records.
stop ==
  /\ initPc = "returned"
  /\ observer' = "disconnected"
  /\ records' = 0
  /\ stops' = stops + 1
  /\ Logged(AddLog(Cur, "log", "Page content observer stopped"))
  /\ UNCHANGED <<doc, content, extractions, input, pass1, pass2, initPc, mutations, detected,
                 afterStop, loggerRest, ytVars, adapterVars>>

\* The callback of contentObserver: the browser delivers all the queued
\* records in one call, and the callback runs one extraction.
contentObserverCallback ==
  /\ observer = "connected"
  /\ records > 0
  /\ records' = 0
  /\ extractions' = extractions + 1
  /\ content' = PageContentOf(doc)
  /\ Logged(LogAll(Cur, ExtractionLog(doc)))
  /\ UNCHANGED <<doc, input, pass1, pass2, observer, initPc, mutations, detected, afterStop,
                 stops, loggerRest, ytVars, adapterVars>>

ObserverIdle ==
  /\ observer = "none"
  /\ records = 0
  /\ initPc = "idle"
  /\ mutations = 0
  /\ detected = 0
  /\ afterStop = 0
  /\ stops = 0

PageIdle ==
  /\ ObserverIdle
  /\ doc = EmptyDoc
  /\ content = NoContent
  /\ extractions = 0
  /\ input = <<>>
  /\ pass1 = NoPass
  /\ pass2 = NoPass

YtIdle ==
  /\ lastVideoId = "null"
  /\ location = "null"
  /\ lastUrl = "null"
  /\ inited = FALSE
  /\ timers = <<>>
  /\ invs = <<>>
  /\ fetches = 0
  /\ navs = 0

LoggerInit ==
  /\ logs = <<>>
  /\ calls = 0
  /\ pending = <<>>
  /\ got = NoGot
  /\ clearSt = "idle"
  /\ lastDone = "none"
  /\ logSinceClear = FALSE
  /\ clearRaced = FALSE

(***************************************************************************)
(* Handler specification: the YouTube handler on a page without extension  *)
(* storage, so that its log traffic stays in the in-memory buffer.         *)
(***************************************************************************)
Init ==
  /\ LoggerInit
  /\ chromeAvailable = FALSE
  /\ store = NoStore
  /\ lastVideoId = "null"
  /\ location \in {"A", "null"}   \* opened on a watch page or on a page without video
  /\ lastUrl = "null"
  /\ inited = FALSE
  /\ timers = <<>>
  /\ invs = <<>>
  /\ fetches = 0
  /\ navs = 0
  /\ AdapterIdle
  /\ PageIdle

Next ==
  \/ initializeYouTubeHandling
  \/ navs < MaxNav /\ \E v \in Videos \cup {"null"} : Navigate(v)
  \/ Len(timers) + Len(invs) < MaxInvocations /\ ytNavigateFinish
  \/ Len(timers) + Len(invs) < MaxInvocations /\ urlChangeObserver
  \/ \E page \in Pages : TimerFires(page)
  \/ \E i \in 1..Len(invs), out \in FetchOutcomes : FetchSettles(i, out)
  \/ \E i \in 1..Len(invs), xmlDoc \in XmlDocs : TextSettles(i, FALSE, xmlDoc)
  \/ \E i \in 1..Len(invs) : TextSettles(i, TRUE, [wellFormed |-> TRUE, texts |-> <<>>])

Spec == Init /\ [][Next]_vars

HasErrorEntry(text) == \E k \in 1..Len(logs) : logs[k].mark = "x" /\ logs[k].text = text

(***************************************************************************)
(* C1: of two processVideo calls in succession that read the same video id *)
(* only the first can do extraction work: the second returns at the        *)
(* equality guard, having logged the skip, without calling fetchTranscript *)
(* or fetch and without changing lastVideoId.                              *)
(***************************************************************************)
SecondCallSkips ==
  \A i \in 1..(Len(invs) - 1) :
    (invs[i].vid = invs[i + 1].vid /\ invs[i].vid # "null") =>
      /\ invs[i + 1].outcome = "same"
      /\ invs[i + 1].ret = "none"
      /\ ~invs[i + 1].fetched
      /\ invs[i + 1].pc = "done"

SkipStep ==
  /\ Len(invs') = Len(invs) + 1
  /\ invs'[Len(invs')].outcome = "same"

C1_SameVideoSkipped ==
  /\ []SecondCallSkips
  /\ [][SkipStep => /\ lastVideoId' = lastVideoId
                    /\ fetches' = fetches
                    /\ logs'[Len(logs')] = LogEntry(calls', "log", "Same video, skipping")]_vars

\* Two calls for video A: the first fetched and summarised, the second skipped.
C1_Witness ==
  /\ Len(invs) = 2
  /\ invs[1].vid = "A" /\ invs[1].outcome = "summarized" /\ invs[1].fetched
  /\ invs[2].vid = "A" /\ invs[2].outcome = "same"
  /\ fetches = 1
  /\ lastVideoId = "A"

(***************************************************************************)
(* C3: for a player response without a captions key or with an empty       *)
(* captionTracks list fetchTranscript returns null, appends an error entry *)
(* to the log and issues no fetch (fetches counts exactly the invocations  *)
(* that reached fetch()).                                                  *)
(***************************************************************************)
C3_NoCaptionsNoFetch ==
  /\ \A i \in 1..Len(invs) :
       invs[i].pr \in {"nocaptions", "emptytracks"} =>
         /\ invs[i].ret = "null"
         /\ ~invs[i].fetched
         /\ invs[i].ftErr # ""
         /\ HasErrorEntry(invs[i].ftErr)
  /\ fetches = Cardinality({i \in 1..Len(invs) : invs[i].fetched})

\* One call met a player response without captions key, another one with
\* an empty track list.
C3_Witness ==
  /\ Len(invs) = 2
  /\ invs[1].pr = "nocaptions" /\ invs[1].ret = "null"
  /\ invs[2].pr = "emptytracks" /\ invs[2].ret = "null"
  /\ fetches = 0
  /\ HasErrorEntry("No captions available")

(***************************************************************************)
(* C4: every transcript failure cause (missing captions, caption track     *)
(* without base URL, non-ok response, rejected fetch, body that cannot be  *)
(* read, XML that cannot be parsed) makes fetchTranscript return null and  *)
(* log an error, and makes neither fetchTranscript nor processVideo throw. *)
(***************************************************************************)
FailureCauses == {"nocaptions", "nourl", "notok", "reject", "textreject", "unparsable"}

C4_TranscriptFailuresLogged ==
  \A i \in 1..Len(invs) :
    (invs[i].pc = "done" /\ invs[i].cause \in FailureCauses) =>
      /\ invs[i].ret = "null"
      /\ invs[i].ftErr # ""
      /\ HasErrorEntry(invs[i].ftErr)
      /\ ~invs[i].threw

(***************************************************************************)
(* Adapter specification: init and generateResponse calls, one at a time.  *)
(***************************************************************************)
InitAdapter ==
  /\ LoggerInit
  /\ chromeAvailable = FALSE
  /\ store = NoStore
  /\ YtIdle
  /\ AdapterIdle
  /\ PageIdle

NextAdapter ==
  \/ \E key \in ApiKeys : init(key)
  \/ generations < MaxGenerations
     /\ \E props \in Prompts, c \in Constructions : generateResponse(props, c)
  \/ \E out \in Settlements : HelperSettles(out)

SpecAdapter == InitAdapter /\ [][NextAdapter]_vars

\* The result generateResponse returns is one of the two shapes, and matches
\* the way the call ended.
ResultShape ==
  /\ ~genResult.threw
  /\ \/ genResult.error = "null" /\ genResult.success \in Objects
     \/ genResult.error # "null" /\ genResult.success = "null"
  /\ genOutcome.kind = "resolve" =>
       genResult.error = "null" /\ genResult.success = genOutcome.object
  /\ genOutcome.kind = "reject" => genResult.error = "rejected"
  /\ genOutcome.kind = "nothing" => genResult.error = "TypeError"
  /\ genOutcome.kind = "none" => genResult.error \in {"clientRaises", "modelRaises"}

(***************************************************************************)
(* C5 as stated: generateResponse never throws, returns {error: null,      *)
(* success: object} on success and {error: caught, success: null} when     *)
(* anything raises, and makes exactly one provider call per invocation.    *)
(***************************************************************************)
C5_ExactlyOneCall ==
  genPc = "done" => (ResultShape /\ genCalls = 1)

(***************************************************************************)
(* C5 amended: generateResponse never throws and returns one of the two    *)
(* shapes; it makes at most one provider call per invocation, with no      *)
(* retry: exactly one once the client and the model were built, none when  *)
(* building them raises.                                                   *)
(***************************************************************************)
C5_AtMostOneCall ==
  /\ genPc = "done" =>
       /\ ResultShape
       /\ genCalls <= 1
       /\ genCalls = 0 <=> genResult.error \in {"clientRaises", "modelRaises"}
  /\ genPc = "awaiting" => genCalls = 1 /\ genRequest.model = "gemini-2.0-flash"
  /\ providerCalls <= generations

\* A call whose helper rejected returned the error, after one provider call.
C5_Witness ==
  /\ genPc = "done"
  /\ genOutcome.kind = "reject"
  /\ genResult = [error |-> "rejected", success |-> "null", threw |-> FALSE]
  /\ genCalls = 1
  /\ generations = 2
  /\ providerCalls = 1

(***************************************************************************)
(* De-duplication specification: the de-duplication applied to a text and  *)
(* then to its own result.                                                 *)
(***************************************************************************)
InitDeDupe ==
  /\ LoggerInit
  /\ chromeAvailable = FALSE
  /\ store = NoStore
  /\ YtIdle
  /\ AdapterIdle
  /\ doc = EmptyDoc
  /\ content = NoContent
  /\ extractions = 0
  /\ ObserverIdle
  /\ input \in Texts(MaxTextLen)
  /\ pass1 = NoPass
  /\ pass2 = NoPass

NextDeDupe == DeDupeOnce \/ DeDupeAgain

SpecDeDupe == InitDeDupe /\ [][NextDeDupe]_vars

(***************************************************************************)
(* C8: the de-duplication of getDeDupedFullText is idempotent: applied to  *)
(* its own output it gives that output again, for every input text; the    *)
(* output has no line break, no doubled or outer whitespace, and is empty  *)
(* or longer than one character.                                           *)
(***************************************************************************)
C8_DeDupeIdempotent ==
  /\ pass2.done => pass2.val = pass1.val
  /\ pass1.done =>
       /\ \A i \in 1..Len(pass1.val) : pass1.val[i] \notin {"\n", "\r"}
       /\ Trim(pass1.val) = pass1.val
       /\ Len(pass1.val) # 1

\* "ab", newline, "ab" de-duplicates to "ab", and "ab" to itself.
C8_Witness ==
  /\ input = <<"a", "b", "\n", "a", "b">>
  /\ pass1.done /\ pass1.val = <<"a", "b">>
  /\ pass2.done /\ pass2.val = <<"a", "b">>

(***************************************************************************)
(* Page specification: getAllPageContent() on documents of bounded size.   *)
(***************************************************************************)
InitPage ==
  /\ LoggerInit
  /\ chromeAvailable = FALSE
  /\ store = NoStore
  /\ YtIdle
  /\ AdapterIdle
  /\ doc \in Docs
  /\ content = NoContent
  /\ extractions = 0
  /\ ObserverIdle
  /\ input = <<>>
  /\ pass1 = NoPass
  /\ pass2 = NoPass

NextPage == extractions < MaxExtractions /\ getAllPageContent

SpecPage == InitPage /\ [][NextPage]_vars

\* The fields a document without title, metas, body text and candidates gives.
EmptyFields(c) ==
  /\ c.title = <<>>
  /\ c.description = <<>>
  /\ c.mainContent = <<>>
  /\ c.deDupedFullText = <<>>
  /\ c.metadata = <<>>
  /\ c.products = <<>>

IsEmptyDocument(d) ==
  /\ d.title = <<>>
  /\ d.metas = <<>>
  /\ d.ldjson = <<>>
  /\ d.elems = <<>>
  /\ ~d.body.present \/ d.body.nodes = <<>>

(***************************************************************************)
(* C6: getAllPageContent never throws; a function that fails gives the     *)
(* empty default for its field, and every field whose function did not     *)
(* fail holds what that function extracts from the document, whatever      *)
(* failed elsewhere (the de-duplicated text is extracted from the text     *)
(* getMainContent returns); an empty document gives empty strings, an      *)
(* empty metadata mapping and an empty product list.                       *)
(***************************************************************************)
C6_CatchAndDefault ==
  content.done =>
    /\ ~content.threw
    /\ content.title = IF "title" \in doc.faults THEN <<>> ELSE doc.title
    /\ content.description =
         IF "description" \in doc.faults THEN <<>>
         ELSE [getPageDescription(doc) EXCEPT !.threw = FALSE].val
    /\ content.mainContent =
         IF ~doc.body.present THEN <<>> ELSE Trim(TextContent(doc.body.nodes))
    /\ content.deDupedFullText =
         IF "dedupe" \in doc.faults THEN <<>> ELSE DeDupe(content.mainContent)
    /\ content.metadata =
         IF "metadata" \in doc.faults THEN <<>>
         ELSE MergeStructured(MergeMetas(<<>>, doc.metas), doc.ldjson)
    /\ content.products =
         IF "products" \in doc.faults THEN <<>>
         ELSE CollectProducts(QueryFirstSelector(ProductSelectors, doc.elems))
    /\ IsEmptyDocument(doc) => EmptyFields(content)

\* The rich document with a failing title and a failing metadata function:
\* both fields are defaulted, the others are extracted.
C6_Witness ==
  /\ content.done
  /\ doc.faults = {"title", "metadata"}
  /\ doc.body.present
  /\ content.title = <<>>
  /\ content.metadata = <<>>
  /\ content.description = <<"d", "1">>
  /\ content.mainContent = <<"H", "i", " ", "\n", "H", "i">>
  /\ content.deDupedFullText = <<"H", "i">>
  /\ Len(content.products) = 1

\* The least position in the priority list of a selector that matches.
FirstMatching(elems) ==
  LET hits == {k \in 1..Len(ProductSelectors) :
                 \E i \in 1..Len(elems) : ProductSelectors[k] \in elems[i].classes}
  IN IF hits = {} THEN 0 ELSE CHOOSE k \in hits : \A j \in hits : k <= j

\* The elements that contribute a product: those of the first matching
\* selector that do not raise and have a name, a price or an image.
Contributing(elems) ==
  LET Contributes(el) ==
        /\ FirstMatching(elems) # 0
        /\ ProductSelectors[FirstMatching(elems)] \in el.classes
        /\ ~el.details.raises
        /\ \/ el.details.nameEl /\ Trim(el.details.nameText) # <<>>
           \/ el.details.priceEl /\ (Trim(el.details.priceText) # <<>> \/ el.details.dataPrice # <<>>)
           \/ el.details.imgEl /\ el.details.src # <<>>
  IN SelectSeq(elems, Contributes)

(***************************************************************************)
(* C7: extractProducts takes its candidates from the first selector of the *)
(* priority list that matches an element, never from a later one, and      *)
(* returns one product for each candidate, in document order, for which a  *)
(* name, a price or an image was found; with no match it returns the empty *)
(* list.                                                                   *)
(***************************************************************************)
C7_FirstSelectorOnly ==
  (content.done /\ "products" \notin doc.faults) =>
    /\ Len(content.products) = Len(Contributing(doc.elems))
    /\ \A i \in 1..Len(content.products) :
         /\ content.products[i] = ProductOf(Contributing(doc.elems)[i])
         /\ HasDetail(content.products[i])
    /\ FirstMatching(doc.elems) = 0 => content.products = <<>>

\* A '.product-card' element comes before a '.product-item' element in the
\* document: only the product of the '.product-item' element is returned.
C7_Witness ==
  /\ content.done
  /\ "products" \notin doc.faults
  /\ Len(doc.elems) = 2
  /\ doc.elems[1].classes = {"product-card"}
  /\ doc.elems[2].classes = {"product-item"}
  /\ HasDetail(ProductOf(doc.elems[1]))
  /\ ~doc.elems[1].details.raises
  /\ content.products = <<ProductOf(doc.elems[2])>>
  /\ ProductOf(doc.elems[2]) # ProductOf(doc.elems[1])

(***************************************************************************)
(* Storage specification: a few log calls, getLogs and clearLogs           *)
(* interleaved with the storage serving or rejecting requests.             *)
(***************************************************************************)
InitStore ==
  /\ LoggerInit
  /\ YtIdle
  /\ AdapterIdle
  /\ PageIdle
  /\ chromeAvailable \in BOOLEAN
  /\ store \in IF chromeAvailable THEN {NoStore, [present |-> TRUE, val |-> OldLogs]}
               ELSE {NoStore}

NextStore ==
  \/ calls < MaxStoreCalls /\ Len(pending) < MaxInFlight /\ log("m")
  \/ calls < MaxStoreCalls /\ Len(pending) < MaxInFlight /\ warn("m")
  \/ calls < MaxStoreCalls /\ Len(pending) < MaxInFlight /\ error("m")
  \/ Len(pending) < MaxInFlight /\ getLogs
  \/ viewYoutubeHandlerLogs
  \/ Len(pending) < MaxInFlight /\ clearLogs
  \/ StorageServe
  \/ StorageReject

SpecStore == InitStore /\ [][NextStore]_vars

(***************************************************************************)
(* C9: every log/warn/error call mirrors the full in-memory buffer to the  *)
(* store: once the last issued write has been applied the persisted buffer *)
(* equals the in-memory buffer, getLogs() resolves with the persisted      *)
(* buffer (that of the moment of the call when the write before it was     *)
(* applied) and with the in-memory buffer when there is no store; a        *)
(* rejected set changes neither the in-memory buffer nor the store, and    *)
(* reaches no caller (clearLogs and getLogs are not affected by it).       *)
(***************************************************************************)
MirrorInv ==
  /\ (chromeAvailable /\ ~HasWrite(pending) /\ lastDone = "applied") => StoredLogs = logs
  /\ (got.has /\ got.ok) => got.val = got.want
  /\ (got.has /\ ~chromeAvailable) => got.val = got.want

SetRejected ==
  /\ pending # <<>>
  /\ Head(pending).op = "set"
  /\ pending' = Tail(pending)
  /\ lastDone' = "failed"

C9_MirrorToStore ==
  /\ []MirrorInv
  /\ [][SetRejected => (logs' = logs /\ store' = store /\ clearSt' = clearSt /\ got' = got)]_vars

\* A getLogs() issued after two log calls resolved with both entries, from the store.
C9_Witness ==
  /\ chromeAvailable
  /\ ~HasWrite(pending)
  /\ lastDone = "applied"
  /\ Len(logs) = 2
  /\ got.has /\ got.ok /\ got.val = logs
  /\ store.present

(***************************************************************************)
(* C10: once clearLogs() has completed and no log call was made since it   *)
(* was called, the in-memory buffer and the persisted buffer are empty and *)
(* a getLogs() called in that situation resolves with the empty sequence,  *)
(* also when sets of earlier log calls were in flight at the call.         *)
(***************************************************************************)
C10_ClearEmptiesBoth ==
  /\ (clearSt = "done" /\ ~logSinceClear) =>
        /\ logs = <<>>
        /\ StoredLogs = <<>>
        /\ ~HasSet(pending)
  /\ (got.has /\ got.clean) => got.val = <<>>

\* clearLogs() was called while sets were in flight, completed, and a later
\* getLogs() resolved.
C10_Witness ==
  /\ chromeAvailable
  /\ clearSt = "done"
  /\ ~logSinceClear
  /\ clearRaced
  /\ calls >= 2
  /\ got.has /\ got.clean

(***************************************************************************)
(* Capacity specification: ScenarioCalls sequential log() calls, then up   *)
(* to MaxTail calls of any level, each issued once the storage has caught  *)
(* up; getLogs() is called after the scenario's calls.                     *)
(***************************************************************************)
InitLogger ==
  /\ LoggerInit
  /\ YtIdle
  /\ AdapterIdle
  /\ PageIdle
  /\ chromeAvailable \in BOOLEAN
  /\ store = NoStore

NextLogger ==
  \/ calls < ScenarioCalls + MaxTail /\ Len(pending) < LoggerInFlight /\ log("m")
  \/ /\ calls >= ScenarioCalls
     /\ calls < ScenarioCalls + MaxTail
     /\ Len(pending) < LoggerInFlight
     /\ warn("m")
  \/ /\ calls >= ScenarioCalls
     /\ calls < ScenarioCalls + MaxTail
     /\ Len(pending) < LoggerInFlight
     /\ error("m")
  \/ calls >= ScenarioCalls /\ Len(pending) < LoggerInFlight /\ getLogs
  \/ viewYoutubeHandlerLogs
  \/ StorageServe

SpecLogger == InitLogger /\ [][NextLogger]_vars

Min(a, b) == IF a < b THEN a ELSE b

\* buf holds the entries of the calls n - Len(buf) + 1 .. n, in call order,
\* and all of the last maxLogs calls.
MostRecent(buf, n) ==
  /\ Len(buf) = Min(n, maxLogs)
  /\ \A i \in 1..Len(buf) : buf[i].ts = n - Len(buf) + i

LastTs(buf) == IF buf = <<>> THEN 0 ELSE buf[Len(buf)].ts

(***************************************************************************)
(* C2: after any sequence of log/warn/error calls the buffer holds at most *)
(* maxLogs entries, the most recent ones in insertion order; so do the     *)
(* persisted buffer and what getLogs() resolves with. After ScenarioCalls  *)
(* log() calls getLogs() gives exactly maxLogs entries, none of them among *)
(* the first ScenarioCalls - maxLogs.                                      *)
(***************************************************************************)
C2_BufferBounded ==
  /\ Len(logs) <= maxLogs
  /\ MostRecent(logs, calls)
  /\ store.present => MostRecent(store.val, LastTs(store.val))
  /\ got.has =>
       /\ got.val = got.want
       /\ MostRecent(got.val, LastTs(got.val))
       /\ LastTs(got.val) = ScenarioCalls =>
            /\ Len(got.val) = maxLogs
            /\ \A i \in 1..Len(got.val) : got.val[i].ts > ScenarioCalls - maxLogs

\* getLogs() resolved after exactly ScenarioCalls log() calls.
C2_Witness ==
  /\ calls = ScenarioCalls
  /\ got.has
  /\ got.val = logs
  /\ Len(got.val) = maxLogs
  /\ got.val[1].ts = ScenarioCalls - maxLogs + 1
  /\ got.val[maxLogs].ts = ScenarioCalls

(***************************************************************************)
(* Observer specification: initializePageExtraction(), mutations of the    *)
(* document, deliveries to the observer callback, stop() calls.            *)
(***************************************************************************)
ObserverDocs ==
  {[d EXCEPT !.body.present = b] : d \in {EmptyDoc, RichDoc}, b \in BOOLEAN}

InitObserver ==
  /\ LoggerInit
  /\ chromeAvailable = FALSE
  /\ store = NoStore
  /\ YtIdle
  /\ AdapterIdle
  /\ ObserverIdle
  /\ doc \in ObserverDocs
  /\ content = NoContent
  /\ extractions = 0
  /\ input = <<>>
  /\ pass1 = NoPass
  /\ pass2 = NoPass

NextObserver ==
  \/ initializePageExtraction
  \/ mutations < MaxMutations /\ \E kind \in MutationKinds : Mutation(kind)
  \/ contentObserverCallback
  \/ stops < MaxStops /\ stop

SpecObserver == InitObserver /\ [][NextObserver]_vars

(***************************************************************************)
(* C11: initializePageExtraction() that returns has run one extraction;    *)
(* after that every delivery to the observer callback runs exactly one     *)
(* further extraction, however many mutation records the delivery carries  *)
(* (the code neither debounces nor coalesces, the browser batches), and    *)
(* nothing else runs one; once stop() has been called no record is queued  *)
(* and no mutation leads to an extraction.                                 *)
(***************************************************************************)
DeliveryStep == records > 0 /\ records' = 0 /\ stops' = stops

C12_DescriptionPriority ==
  (content.done /\ "description" \notin doc.faults) =>
    LET metaDescription == MetaContent(doc, "name", "description")
        ogDescription == MetaContent(doc, "property", "og:description")
        paragraphs == IF doc.body.present
                      THEN SelectSeq(doc.body.nodes, LAMBDA n : n.tag = "p")
                      ELSE <<>>
        firstParagraph == IF paragraphs = <<>> THEN <<>> ELSE Trim(paragraphs[1].text)
    IN /\ metaDescription # <<>> => content.description = metaDescription
       /\ (metaDescription = <<>> /\ ogDescription # <<>>) =>
            content.description = ogDescription
       /\ (metaDescription = <<>> /\ ogDescription = <<>>) =>
            content.description = firstParagraph
       /\ (metaDescription = <<>> /\ ogDescription = <<>> /\ firstParagraph = <<>>) =>
            content.description = <<>>

\* No meta description, an OpenGraph description without content and a
\* first paragraph " Hi": the description is "Hi".
C12_Witness ==
  /\ content.done
  /\ doc.metas = <<Meta("", "og:description", <<>>)>>
  /\ doc.body.nodes = ParagraphFor("text")
  /\ content.description = <<"H", "i">>

(***************************************************************************)
(* Navigation specification: the handler over longer runs of navigations   *)
(* and triggers, on watch pages that carry no player response or one with  *)
(* a caption track. The transcript request of one invocation settles       *)
(* before the next timer fires (the handler specification covers           *)
(* invocations that overlap and the other ways an attempt can fail).       *)
(***************************************************************************)
InFlight == {i \in 1..Len(invs) : invs[i].pc # "done"}

NavPages ==
  {[global |-> g, script |-> "none"] : g \in {"none", "withurl"}}

NavXmlDocs == {x \in XmlDocs : x.wellFormed /\ x.texts # <<>>}

NextNav ==
  \/ initializeYouTubeHandling
  \/ navs < MaxHrefChanges /\ \E v \in Videos \cup {"null"} : Navigate(v)
  \/ Len(timers) + Len(invs) < MaxTriggers /\ ytNavigateFinish
  \/ Len(timers) + Len(invs) < MaxTriggers /\ urlChangeObserver
  \/ InFlight = {} /\ \E page \in NavPages : TimerFires(page)
  \/ \E i \in 1..Len(invs), out \in {"ok", "notok"} : FetchSettles(i, out)
  \/ \E i \in 1..Len(invs), xmlDoc \in NavXmlDocs : TextSettles(i, FALSE, xmlDoc)

SpecNav == Init /\ [][NextNav]_vars

\* The invocation went past the equality guard.
PassedGuard(inv) == inv.outcome \notin {"noid", "same"}

\* Invocation i has not returned yet.
Running(i) == invs[i].pc # "done"

(***************************************************************************)
(* C13: the guard does protect against two triggers for the same new       *)
(* video: lastVideoId is assigned before the first await, so while an      *)
(* invocation for a video is in flight and no other video has been         *)
(* processed since, lastVideoId holds its id, and of two invocations that  *)
(* read the same id both go past the guard only when an invocation for     *)
(* another id went past it in between.                                     *)
(***************************************************************************)
C13_GuardHoldsWhileInFlight ==
  /\ \A i \in 1..Len(invs) :
       (/\ PassedGuard(invs[i])
        /\ \A k \in (i + 1)..Len(invs) : ~PassedGuard(invs[k])) => lastVideoId = invs[i].vid
  /\ \A i, j \in 1..Len(invs) :
       (i < j /\ invs[i].vid = invs[j].vid /\ PassedGuard(invs[i]) /\ PassedGuard(invs[j])) =>
         \E k \in (i + 1)..(j - 1) : PassedGuard(invs[k]) /\ invs[k].vid # invs[i].vid

\* The first invocation for video A awaits its transcript request, and the
\* second one, for the same video, was skipped at the guard.
C13_Witness ==
  /\ Len(invs) = 2
  /\ invs[1].vid = "A" /\ Running(1) /\ invs[1].fetched
  /\ invs[2].vid = "A" /\ invs[2].outcome = "same"
  /\ fetches = 1

\* One invocation is in flight for the video of the page, and a second
\* trigger for it is pending.
RaceSetup ==
  /\ Len(invs) = 1
  /\ Running(1)
  /\ invs[1].vid = location
  /\ timers # <<>>

\* The pending timer fires and its invocation goes past the guard.
SecondPasses ==
  \E page \in Pages : TimerFires(page) /\ PassedGuard(invs'[Len(invs')])

\* C13 as stated: with one invocation for the new video in flight, the
\* invocation of a second trigger for that video can go past the guard too.
C13_BothPassGuard == RaceSetup => ENABLED SecondPasses

(***************************************************************************)
(* C14: an invocation that a newer one has superseded is not cancelled, it *)
(* can still settle and then runs to its end, appending its log entries;   *)
(* a continuation never assigns lastVideoId, which keeps the id of the     *)
(* invocation that went past the guard last.                               *)
(***************************************************************************)
Superseded(i) ==
  /\ Running(i)
  /\ \E j \in (i + 1)..Len(invs) : PassedGuard(invs[j]) /\ invs[j].vid # invs[i].vid

\* The transcript request or the body of invocation i settles.
Settles(i) ==
  \/ \E out \in FetchOutcomes : FetchSettles(i, out)
  \/ \E xmlDoc \in XmlDocs : TextSettles(i, FALSE, xmlDoc)
  \/ TextSettles(i, TRUE, [wellFormed |-> TRUE, texts |-> <<>>])

Continuation == \E i \in 1..Len(invs) : Running(i) /\ invs'[i] # invs[i]

C14_NoCancelNoOverwrite ==
  /\ [](\A i \in 1..Len(invs) : Superseded(i) => ENABLED Settles(i))
  /\ [][Continuation => lastVideoId' = lastVideoId /\ Len(logs') >= Len(logs)]_vars

\* The invocation for video A ended with its summary after the one for
\* video B had gone past the guard: lastVideoId is still B.
C14_Witness ==
  /\ Len(invs) = 2
  /\ invs[1].vid = "A" /\ invs[1].outcome = "summarized"
  /\ invs[2].vid = "B" /\ invs[2].pc = "fetch"
  /\ logs[Len(logs)].text = "Summary:"
  /\ lastVideoId = "B"

\* C14 as stated: the completion of a superseded invocation can overwrite
\* the lastVideoId the newer invocation has set.
C14_CompletionOverwrites ==
  \A i \in 1..Len(invs) :
    Superseded(i) => ENABLED (Settles(i) /\ lastVideoId' # lastVideoId)

\* The invocation ended without a transcript.
Failed(inv) == inv.pc = "done" /\ inv.outcome \in {"noplayer", "notranscript"}

\* A timer fires in this step: processVideo is called.
InvocationStep == Len(invs') = Len(invs) + 1

NewInv == invs'[Len(invs')]

LastPassed ==
  LET passed == {i \in 1..Len(invs) : PassedGuard(invs[i])}
  IN IF passed = {} THEN "null"
     ELSE invs[CHOOSE i \in passed : \A k \in passed : k <= i].vid

C16_OnlyLastVideoRemembered ==
  /\ [](lastVideoId = LastPassed)
  /\ [](\A i \in 1..Len(invs) :
         invs[i].vid = "null" => invs[i].outcome = "noid" /\ ~invs[i].fetched)
  /\ [][/\ lastVideoId' # lastVideoId =>
             /\ InvocationStep
             /\ NewInv.vid = location
             /\ NewInv.vid # "null"
             /\ NewInv.vid # lastVideoId
             /\ lastVideoId' = NewInv.vid
        /\ lastVideoId # "null" => lastVideoId' # "null"
        /\ (InvocationStep /\ NewInv.vid = "null") =>
             lastVideoId' = lastVideoId /\ fetches' = fetches]_vars

\* The navigations A, B, A: video A was processed, then B, then A again.
C16_Witness ==
  /\ Len(invs) = 3
  /\ navs = 2
  /\ invs[1].vid = "A" /\ invs[1].outcome = "summarized"
  /\ invs[2].vid = "B" /\ invs[2].outcome = "summarized"
  /\ invs[3].vid = "A" /\ invs[3].outcome = "summarized"
  /\ fetches = 3
  /\ lastVideoId = "A"

(***************************************************************************)
(* C17: every trigger sets one timer and every timer calls processVideo    *)
(* once, so timers and invocations together are as many as the triggers;   *)
(* the invocation reads the id the URL holds when the timer fires; the     *)
(* URL-change observer remembers the href it has seen, so it sets at most  *)
(* one timer per change of the href.                                       *)
(***************************************************************************)
TriggerTexts ==
  {"Setting up initial video processing...", "yt-navigate-finish detected",
   "URL changed detected by MutationObserver"}

Triggers == Cardinality({k \in 1..Len(logs) : logs[k].text \in TriggerTexts})

UrlTriggers ==
  Cardinality({k \in 1..Len(logs) : logs[k].text = "URL changed detected by MutationObserver"})

C17_OneInvocationPerTrigger ==
  /\ [](Len(timers) + Len(invs) = Triggers)
  /\ [](UrlTriggers <= navs)
  /\ [][/\ Len(timers') > Len(timers) => Len(timers') = Len(timers) + 1 /\ invs' = invs
        /\ InvocationStep =>
             /\ timers' = Tail(timers)
             /\ NewInv.vid = location
        /\ UrlTriggers' > UrlTriggers => lastUrl' = location' /\ lastUrl # location]_vars

\* The page was opened on video A and moved to B, which the observer saw;
\* it moved back to A before either timer fired: both invocations read A,
\* the one the observer set for B as well.
C17_Witness ==
  /\ timers = <<>>
  /\ Len(invs) = 2
  /\ navs = 2
  /\ lastUrl = "B"
  /\ UrlTriggers = 1
  /\ invs[1].vid = "A" /\ PassedGuard(invs[1])
  /\ invs[2].vid = "A" /\ invs[2].outcome = "same"

====
